---- MODULE Spec2Model ----
(***************************************************************************)
(* A model of CLAM (clam.h), a single-header C library of string matchers. *)
(* Every matcher takes a null-terminated `input` plus zero or more         *)
(* parameters and returns a clam_match_result_t: the number of characters  *)
(* it matched.  Matchers are pure functions; they are modelled as          *)
(* operators that compute what the C code computes, loop by loop, and one  *)
(* action per matcher applies it to the arguments of a call.               *)
(***************************************************************************)
EXTENDS Integers, Sequences, FiniteSets, TLC

VARIABLES
  \* one matcher call: its arguments, the matcher called and its result
  input, chars, n, c, fn, result,
  \* a matcher's loop run step by step: position, the C variable i (loop_i) and the
  \* number of times the loop body has run
  pc, loop_i, iters,
  \* the example driver: its argument vector, the loop index a, the value
  \* returned from main (-1 while running) and what it has printed
  argv, a, ret, out

vars == <<input, chars, n, c, fn, result, pc, loop_i, iters, argv, a, ret, out>>

\* the variables of a single matcher call
call_vars == <<input, chars, n, c, fn, result>>

\* the variables of a loop run step by step
loop_vars == <<pc, loop_i, iters>>

\* the variables of the example driver
main_vars == <<argv, a, ret, out>>

(***************************************************************************)
(* Bounds of the model.                                                    *)
(***************************************************************************)
\* longest input string
MaxLen == 3
\* longest literal / allow-set string
MaxParamLen == 2
\* largest character code a classifier is handed (ASCII)
MaxChar == 127
\* longest trailer after the first character handed to a classifier
MaxTail == 1
\* largest number of arguments handed to the example driver
MaxArgc == 3
\* largest minimum length handed to clam_match_at_least_n_chars
MaxN == 3

(***************************************************************************)
(* Characters are their ASCII codes.  The alphabet holds the two prefix    *)
(* delimiters, a sign that is not a delimiter, a digit and a letter.       *)
(***************************************************************************)
NUL == 0
DASH == 45
SLASH == 47
PLUS == 43
DIGIT1 == 49
LOWER_A == 97

Alphabet == {DASH, SLASH, PLUS, DIGIT1, LOWER_A}

\* every value a `char` argument takes in the model: the alphabet and '\0'
Chars0 == Alphabet \cup {NUL}

\* the contents (terminator excluded) of every C string of length <= L
Strings(L) == UNION {[1..k -> Alphabet] : k \in 0..L}

(***************************************************************************)
(* C strings and pointers.  A `const char *` is a buffer (the characters   *)
(* before the terminator) and an offset into it.  Reading at the offset of *)
(* the terminator yields NUL; reading past it is out of bounds.            *)
(***************************************************************************)
\* what a read past the terminator yields: no character of the model
OOB == -1

\* pointer to the first character of the string s
Ptr(s) == [s |-> s, o |-> 0]

\* the null pointer
NULL == [s |-> <<>>, o |-> -1]

\* p + i
Plus(p, i) == [s |-> p.s, o |-> p.o + i]

\* p[i]
Deref(p, i) ==
  LET k == p.o + i
  IN  IF k < Len(p.s) THEN p.s[k + 1]
      ELSE IF k = Len(p.s) THEN NUL
      ELSE OOB

\* strlen(p)
strlen(p) == Len(p.s) - p.o

\* the value of a C comparison or logical expression
Bool(b) == IF b THEN 1 ELSE 0

(***************************************************************************)
(* Basic character matchers                                                *)
(***************************************************************************)
\* clam_match_char with the comparison inverted
clam_match_char_inverted(inp, ch) == Bool(Deref(inp, 0) # ch)

clam_match_char(inp, ch) == Bool(Deref(inp, 0) = ch)

\* clam_match_end testing for a non-terminator
clam_match_end_nonempty(inp) == Bool(clam_match_char(inp, 0) = 0)

clam_match_end(inp) == clam_match_char(inp, 0)

\* the loop of clam_match_anychar giving up after the first character of the set
clam_match_anychar_loop_first_only(inp, set, i, res) ==
  IF res = 0 /\ clam_match_end(Plus(set, i)) = 0
  THEN clam_match_char(inp, Deref(set, i))
  ELSE res

\* the while loop of clam_match_anychar, entered with i and result
RECURSIVE clam_match_anychar_loop(_, _, _, _)
clam_match_anychar_loop(inp, set, i, res) ==
  IF res = 0 /\ clam_match_end(Plus(set, i)) = 0
  THEN LET r == clam_match_char(inp, Deref(set, i))
       IN  IF r # 0 THEN r
           ELSE clam_match_anychar_loop(inp, set, i + 1, r)
  ELSE res

\* clam_match_anychar without the test for empty input
clam_match_anychar_no_end_check(inp, set) ==
  IF set = NULL THEN 1
  ELSE clam_match_anychar_loop(inp, set, 0, 0)

clam_match_anychar(inp, set) ==
  IF clam_match_end(inp) # 0 THEN 0
  ELSE IF set = NULL THEN 1
  ELSE clam_match_anychar_loop(inp, set, 0, 0)

(***************************************************************************)
(* String matchers                                                         *)
(***************************************************************************)
\* the lock-step while loop of clam_match_at_least_n_chars: the final i
RECURSIVE clam_match_at_least_n_chars_loop(_, _, _)
clam_match_at_least_n_chars_loop(inp, lit, i) ==
  IF /\ clam_match_end(Plus(inp, i)) = 0
     /\ clam_match_end(Plus(lit, i)) = 0
     /\ clam_match_char(Plus(inp, i), Deref(lit, i)) # 0
  THEN clam_match_at_least_n_chars_loop(inp, lit, i + 1)
  ELSE i

\* clam_match_at_least_n_chars requiring more than n characters
clam_match_at_least_n_chars_strict(inp, min, lit) ==
  LET i == clam_match_at_least_n_chars_loop(inp, lit, 0)
  IN  IF i > min THEN i ELSE 0

clam_match_at_least_n_chars(inp, min, lit) ==
  LET i == clam_match_at_least_n_chars_loop(inp, lit, 0)
  IN  IF i >= min THEN i ELSE 0

\* the lock-step while loop of clam_match_chars: the final i
RECURSIVE clam_match_chars_loop(_, _, _)
clam_match_chars_loop(inp, lit, i) ==
  IF /\ clam_match_end(Plus(inp, i)) = 0
     /\ clam_match_end(Plus(lit, i)) = 0
     /\ clam_match_char(Plus(inp, i), Deref(lit, i)) # 0
  THEN clam_match_chars_loop(inp, lit, i + 1)
  ELSE i

\* clam_match_chars testing that input, not chars, is exhausted
clam_match_chars_input_end(inp, lit) ==
  LET i == clam_match_chars_loop(inp, lit, 0)
  IN  IF clam_match_end(Plus(inp, i)) # 0 THEN i ELSE 0

\* clam_match_chars returning the scanned length whether or not chars is exhausted
clam_match_chars_partial(inp, lit) ==
  clam_match_chars_loop(inp, lit, 0)

clam_match_chars(inp, lit) ==
  LET i == clam_match_chars_loop(inp, lit, 0)
  IN  IF clam_match_end(Plus(lit, i)) # 0 THEN i ELSE 0

\* clam_match_chars_to_end without the test that input is exhausted
clam_match_chars_to_end_prefix(inp, lit) ==
  clam_match_chars(inp, lit)

clam_match_chars_to_end(inp, lit) ==
  LET i == clam_match_chars(inp, lit)
  IN  IF i = 0 THEN 0
      ELSE IF clam_match_end(Plus(inp, i)) # 0 THEN i ELSE 0

(***************************************************************************)
(* Character ranges (the ACSL axiomatic CharacterRanges)                   *)
(***************************************************************************)
is_numeric10_char(x) == 48 <= x /\ x <= 57

is_numeric16_char(x) ==
  \/ 48 <= x /\ x <= 57
  \/ 97 <= x /\ x <= 102
  \/ 65 <= x /\ x <= 70

is_upper_char(x) == 65 <= x /\ x <= 90

is_lower_char(x) == 97 <= x /\ x <= 122

is_alpha_char(x) == is_upper_char(x) \/ is_lower_char(x)

is_alphanumeric_char(x) == is_alpha_char(x) \/ is_numeric10_char(x)

(***************************************************************************)
(* Character classifiers and numeric matchers                              *)
(***************************************************************************)
clam_match_numeric10_char(inp) ==
  Bool(Deref(inp, 0) >= 48 /\ Deref(inp, 0) <= 57)

\* the loop of clam_match_unsigned_integer10 run as an `if`: one digit at most
clam_match_unsigned_integer10_loop_once(inp, i) ==
  IF clam_match_numeric10_char(Plus(inp, i)) # 0 THEN i + 1 ELSE i

\* the while loop of clam_match_unsigned_integer10: the final i
RECURSIVE clam_match_unsigned_integer10_loop(_, _)
clam_match_unsigned_integer10_loop(inp, i) ==
  IF clam_match_numeric10_char(Plus(inp, i)) # 0
  THEN clam_match_unsigned_integer10_loop(inp, i + 1)
  ELSE i

clam_match_unsigned_integer10(inp) ==
  clam_match_unsigned_integer10_loop(inp, 0)

\* const char clam__signs[3] = "-+"
clam__signs == Ptr(<<DASH, PLUS>>)

\* clam_match_signed_integer10 counting the sign when no digit follows
clam_match_signed_integer10_sign_only(inp) ==
  LET sign == clam_match_anychar(inp, clam__signs)
      number == clam_match_unsigned_integer10(Plus(inp, sign))
  IN  sign + number

clam_match_signed_integer10(inp) ==
  LET sign == clam_match_anychar(inp, clam__signs)
      number == clam_match_unsigned_integer10(Plus(inp, sign))
  IN  IF number # 0 THEN sign + number ELSE 0

\* clam_match_numeric16_char with the lowercase range one letter too long
clam_match_numeric16_char_to_g(inp) ==
  Bool(\/ Deref(inp, 0) >= 48 /\ Deref(inp, 0) <= 57
       \/ Deref(inp, 0) >= 65 /\ Deref(inp, 0) <= 70
       \/ Deref(inp, 0) >= 97 /\ Deref(inp, 0) <= 103)

clam_match_numeric16_char(inp) ==
  Bool(\/ Deref(inp, 0) >= 48 /\ Deref(inp, 0) <= 57
       \/ Deref(inp, 0) >= 65 /\ Deref(inp, 0) <= 70
       \/ Deref(inp, 0) >= 97 /\ Deref(inp, 0) <= 102)

clam_match_uppercase_char(inp) ==
  Bool(Deref(inp, 0) >= 65 /\ Deref(inp, 0) <= 90)

clam_match_lowercase_char(inp) ==
  Bool(Deref(inp, 0) >= 97 /\ Deref(inp, 0) <= 122)

clam_match_alpha_char(inp) ==
  Bool(clam_match_lowercase_char(inp) # 0 \/ clam_match_uppercase_char(inp) # 0)

clam_match_alphanumeric_char(inp) ==
  Bool(clam_match_alpha_char(inp) # 0 \/ clam_match_numeric10_char(inp) # 0)

(***************************************************************************)
(* POSIX matchers                                                          *)
(***************************************************************************)
\* clam_match_posix_option without the alphanumeric test
clam_match_posix_option_any(inp, allowed_options) ==
  IF /\ clam_match_char(inp, DASH) # 0
     /\ clam_match_anychar(Plus(inp, 1), allowed_options) # 0
  THEN 2 ELSE 0

\* && short-circuits: input + 1 is only looked at after input[0] == '-'
clam_match_posix_option(inp, allowed_options) ==
  IF /\ clam_match_char(inp, DASH) # 0
     /\ clam_match_alphanumeric_char(Plus(inp, 1)) # 0
     /\ clam_match_anychar(Plus(inp, 1), allowed_options) # 0
  THEN 2 ELSE 0

\* clam_match_posix_long_option counting the dash when the option does not match
clam_match_posix_long_option_dash(inp, option) ==
  LET dash == clam_match_char(inp, DASH)
  IN  IF dash = 0 THEN 0
      ELSE dash + clam_match_chars(Plus(inp, dash), option)

clam_match_posix_long_option(inp, option) ==
  LET dash == clam_match_char(inp, DASH)
  IN  IF dash = 0 THEN 0
      ELSE LET opt == clam_match_chars(Plus(inp, dash), option)
           IN  IF opt # 0 THEN dash + opt ELSE 0

\* the loop of clam_match_posix_flags accepting a bare dash (i > 0)
RECURSIVE clam_match_posix_flags_loop_bare(_, _, _)
clam_match_posix_flags_loop_bare(inp, allowed_options, i) ==
  IF clam_match_end(Plus(inp, i)) = 0
  THEN IF ~ (/\ clam_match_alphanumeric_char(Plus(inp, i)) # 0
             /\ clam_match_anychar(Plus(inp, i), allowed_options) # 0)
       THEN 0
       ELSE clam_match_posix_flags_loop_bare(inp, allowed_options, i + 1)
  ELSE IF i > 0 THEN i ELSE 0

\* the while loop of clam_match_posix_flags: the value returned from the
\* loop, or after it
RECURSIVE clam_match_posix_flags_loop(_, _, _)
clam_match_posix_flags_loop(inp, allowed_options, i) ==
  IF clam_match_end(Plus(inp, i)) = 0
  THEN IF ~ (/\ clam_match_alphanumeric_char(Plus(inp, i)) # 0
             /\ clam_match_anychar(Plus(inp, i), allowed_options) # 0)
       THEN 0
       ELSE clam_match_posix_flags_loop(inp, allowed_options, i + 1)
  ELSE IF i > 1 THEN i ELSE 0

\* clam_match_posix_flags accepting the flags before the first rejected character
RECURSIVE clam_match_posix_flags_partial_loop(_, _, _)
clam_match_posix_flags_partial_loop(inp, allowed_options, i) ==
  IF clam_match_end(Plus(inp, i)) = 0
     /\ clam_match_alphanumeric_char(Plus(inp, i)) # 0
     /\ clam_match_anychar(Plus(inp, i), allowed_options) # 0
  THEN clam_match_posix_flags_partial_loop(inp, allowed_options, i + 1)
  ELSE IF i > 1 THEN i ELSE 0

clam_match_posix_flags_partial(inp, allowed_options) ==
  LET i == clam_match_char(inp, DASH)
  IN  IF i = 0 THEN 0
      ELSE clam_match_posix_flags_partial_loop(inp, allowed_options, i)

clam_match_posix_flags(inp, allowed_options) ==
  LET i == clam_match_char(inp, DASH)
  IN  IF i = 0 THEN 0
      ELSE clam_match_posix_flags_loop(inp, allowed_options, i)

\* const char clam__dashes[3] = "--"
clam__dashes == Ptr(<<DASH, DASH>>)

\* clam_match_posix_terminate_options matching "--" as a prefix only
clam_match_posix_terminate_options_prefix(inp) ==
  clam_match_chars(inp, clam__dashes)

clam_match_posix_terminate_options(inp) ==
  clam_match_chars_to_end(inp, clam__dashes)

(***************************************************************************)
(* Windows matchers                                                        *)
(***************************************************************************)
clam_match_windows_switch(inp, allowed_switches) ==
  IF /\ clam_match_char(inp, SLASH) # 0
     /\ clam_match_alphanumeric_char(Plus(inp, 1)) # 0
     /\ clam_match_anychar(Plus(inp, 1), allowed_switches) # 0
  THEN 2 ELSE 0

\* clam_match_windows_long_switch counting the slash when the switch does not match
clam_match_windows_long_switch_slash(inp, switch_s) ==
  LET slash == clam_match_char(inp, SLASH)
  IN  IF slash = 0 THEN 0
      ELSE slash + clam_match_chars(Plus(inp, slash), switch_s)

clam_match_windows_long_switch(inp, switch_s) ==
  LET slash == clam_match_char(inp, SLASH)
  IN  IF slash = 0 THEN 0
      ELSE LET swtch == clam_match_chars(Plus(inp, slash), switch_s)
           IN  IF swtch # 0 THEN slash + swtch ELSE 0

(***************************************************************************)
(* The reads of each matcher: the set of pointers it dereferences, its     *)
(* own reads and those of the matchers it calls, following the control     *)
(* flow (&&, || and ?: evaluate their right side only when needed).  Every *)
(* matcher reads the first character of the input it is handed.            *)
(***************************************************************************)
clam_match_char_reads(inp, ch) == {inp}

clam_match_end_reads(inp) == clam_match_char_reads(inp, 0)

RECURSIVE clam_match_anychar_loop_reads(_, _, _, _)
clam_match_anychar_loop_reads(inp, set, i, res) ==
  IF res # 0 THEN {}
  ELSE clam_match_end_reads(Plus(set, i)) \cup
       IF clam_match_end(Plus(set, i)) # 0 THEN {}
       ELSE {Plus(set, i)} \cup clam_match_char_reads(inp, Deref(set, i)) \cup
            LET r == clam_match_char(inp, Deref(set, i))
            IN  IF r # 0 THEN {}
                ELSE clam_match_anychar_loop_reads(inp, set, i + 1, r)

clam_match_anychar_reads(inp, set) ==
  clam_match_end_reads(inp) \cup
  IF clam_match_end(inp) # 0 THEN {}
  ELSE IF set = NULL THEN {}
  ELSE clam_match_anychar_loop_reads(inp, set, 0, 0)

\* the reads of the lock-step loop of clam_match_at_least_n_chars and
\* clam_match_chars
RECURSIVE lockstep_loop_reads(_, _, _)
lockstep_loop_reads(inp, lit, i) ==
  clam_match_end_reads(Plus(inp, i)) \cup
  IF clam_match_end(Plus(inp, i)) # 0 THEN {}
  ELSE clam_match_end_reads(Plus(lit, i)) \cup
       IF clam_match_end(Plus(lit, i)) # 0 THEN {}
       ELSE {Plus(lit, i)} \cup
            clam_match_char_reads(Plus(inp, i), Deref(lit, i)) \cup
            IF clam_match_char(Plus(inp, i), Deref(lit, i)) # 0
            THEN lockstep_loop_reads(inp, lit, i + 1)
            ELSE {}

clam_match_at_least_n_chars_reads(inp, min, lit) ==
  lockstep_loop_reads(inp, lit, 0)

clam_match_chars_reads(inp, lit) ==
  lockstep_loop_reads(inp, lit, 0) \cup
  clam_match_end_reads(Plus(lit, clam_match_chars_loop(inp, lit, 0)))

clam_match_chars_to_end_reads(inp, lit) ==
  clam_match_chars_reads(inp, lit) \cup
  LET i == clam_match_chars(inp, lit)
  IN  IF i = 0 THEN {} ELSE clam_match_end_reads(Plus(inp, i))

\* each of the six classifiers reads input[0] only
classifier_reads(inp) == {inp}

RECURSIVE clam_match_unsigned_integer10_loop_reads(_, _)
clam_match_unsigned_integer10_loop_reads(inp, i) ==
  classifier_reads(Plus(inp, i)) \cup
  IF clam_match_numeric10_char(Plus(inp, i)) # 0
  THEN clam_match_unsigned_integer10_loop_reads(inp, i + 1)
  ELSE {}

clam_match_unsigned_integer10_reads(inp) ==
  clam_match_unsigned_integer10_loop_reads(inp, 0)

clam_match_signed_integer10_reads(inp) ==
  clam_match_anychar_reads(inp, clam__signs) \cup
  clam_match_unsigned_integer10_reads(
    Plus(inp, clam_match_anychar(inp, clam__signs)))

\* the reads of a prefix character followed by one allowed alphanumeric
\* character, with every operand of && evaluated
option_reads_eager(inp, prefix, allowed) ==
  clam_match_char_reads(inp, prefix) \cup
  classifier_reads(Plus(inp, 1)) \cup
  clam_match_anychar_reads(Plus(inp, 1), allowed)

\* the reads of clam_match_posix_option (prefix '-') and
\* clam_match_windows_switch (prefix '/')
option_reads(inp, prefix, allowed) ==
  clam_match_char_reads(inp, prefix) \cup
  IF clam_match_char(inp, prefix) = 0 THEN {}
  ELSE classifier_reads(Plus(inp, 1)) \cup
       IF clam_match_alphanumeric_char(Plus(inp, 1)) = 0 THEN {}
       ELSE clam_match_anychar_reads(Plus(inp, 1), allowed)

\* the reads of clam_match_posix_long_option (prefix '-') and
\* clam_match_windows_long_switch (prefix '/')
long_option_reads(inp, prefix, option) ==
  clam_match_char_reads(inp, prefix) \cup
  LET dash == clam_match_char(inp, prefix)
  IN  IF dash = 0 THEN {}
      ELSE clam_match_chars_reads(Plus(inp, dash), option)

RECURSIVE clam_match_posix_flags_loop_reads(_, _, _)
clam_match_posix_flags_loop_reads(inp, allowed_options, i) ==
  clam_match_end_reads(Plus(inp, i)) \cup
  IF clam_match_end(Plus(inp, i)) # 0 THEN {}
  ELSE classifier_reads(Plus(inp, i)) \cup
       IF clam_match_alphanumeric_char(Plus(inp, i)) = 0 THEN {}
       ELSE clam_match_anychar_reads(Plus(inp, i), allowed_options) \cup
            IF clam_match_anychar(Plus(inp, i), allowed_options) = 0 THEN {}
            ELSE clam_match_posix_flags_loop_reads(inp, allowed_options, i + 1)

clam_match_posix_flags_reads(inp, allowed_options) ==
  clam_match_char_reads(inp, DASH) \cup
  LET i == clam_match_char(inp, DASH)
  IN  IF i = 0 THEN {}
      ELSE clam_match_posix_flags_loop_reads(inp, allowed_options, i)

clam_match_posix_terminate_options_reads(inp) ==
  clam_match_chars_to_end_reads(inp, clam__dashes)

\* the reads of the call the state holds
Reads ==
  CASE fn = "clam_match_char" -> clam_match_char_reads(input, c)
    [] fn = "clam_match_end" -> clam_match_end_reads(input)
    [] fn = "clam_match_anychar" -> clam_match_anychar_reads(input, chars)
    [] fn = "clam_match_at_least_n_chars" ->
         clam_match_at_least_n_chars_reads(input, n, chars)
    [] fn = "clam_match_chars" -> clam_match_chars_reads(input, chars)
    [] fn = "clam_match_chars_to_end" ->
         clam_match_chars_to_end_reads(input, chars)
    [] fn \in {"clam_match_numeric10_char", "clam_match_numeric16_char",
               "clam_match_uppercase_char", "clam_match_lowercase_char",
               "clam_match_alpha_char", "clam_match_alphanumeric_char"} ->
         classifier_reads(input)
    [] fn = "clam_match_unsigned_integer10" ->
         clam_match_unsigned_integer10_reads(input)
    [] fn = "clam_match_signed_integer10" ->
         clam_match_signed_integer10_reads(input)
    [] fn = "clam_match_posix_option" -> option_reads(input, DASH, chars)
    [] fn = "clam_match_posix_long_option" ->
         long_option_reads(input, DASH, chars)
    [] fn = "clam_match_posix_flags" ->
         clam_match_posix_flags_reads(input, chars)
    [] fn = "clam_match_posix_terminate_options" ->
         clam_match_posix_terminate_options_reads(input)
    [] fn = "clam_match_windows_switch" -> option_reads(input, SLASH, chars)
    [] fn = "clam_match_windows_long_switch" ->
         long_option_reads(input, SLASH, chars)
    [] OTHER -> {}

(***************************************************************************)
(* The state: the arguments of one matcher call, the matcher called and    *)
(* its result.  A call leaves its arguments as they were.                  *)
(***************************************************************************)
Inputs == {Ptr(s) : s \in Strings(MaxLen)}
Params == {Ptr(s) : s \in Strings(MaxParamLen)}
ParamsOrNull == Params \cup {NULL}

Init ==
  /\ input \in Inputs
  /\ chars = NULL
  /\ n = 0
  /\ c = NUL
  /\ fn = "none"
  /\ result = 0
  /\ pc = "call"
  /\ loop_i = 0
  /\ iters = 0
  /\ argv = <<>>
  /\ a = 0
  /\ ret = -1
  /\ out = <<>>

Call_match_char ==
  /\ fn = "none"
  /\ \E ch \in Chars0 :
       /\ c' = ch
       /\ result' = clam_match_char(input, ch)
  /\ fn' = "clam_match_char"
  /\ UNCHANGED <<input, chars, n>>
  /\ UNCHANGED <<loop_vars, main_vars>>

Call_match_end ==
  /\ fn = "none"
  /\ result' = clam_match_end(input)
  /\ fn' = "clam_match_end"
  /\ UNCHANGED <<input, chars, n, c>>
  /\ UNCHANGED <<loop_vars, main_vars>>

Call_match_anychar ==
  /\ fn = "none"
  /\ \E set \in ParamsOrNull :
       /\ chars' = set
       /\ result' = clam_match_anychar(input, set)
  /\ fn' = "clam_match_anychar"
  /\ UNCHANGED <<input, n, c>>
  /\ UNCHANGED <<loop_vars, main_vars>>

Call_match_at_least_n_chars ==
  /\ fn = "none"
  /\ \E lit \in Params, min \in 0..MaxN :
       /\ chars' = lit
       /\ n' = min
       /\ result' = clam_match_at_least_n_chars(input, min, lit)
  /\ fn' = "clam_match_at_least_n_chars"
  /\ UNCHANGED <<input, c>>
  /\ UNCHANGED <<loop_vars, main_vars>>

Call_match_chars ==
  /\ fn = "none"
  /\ \E lit \in Params :
       /\ chars' = lit
       /\ result' = clam_match_chars(input, lit)
  /\ fn' = "clam_match_chars"
  /\ UNCHANGED <<input, n, c>>
  /\ UNCHANGED <<loop_vars, main_vars>>

Call_match_chars_to_end ==
  /\ fn = "none"
  /\ \E lit \in Params :
       /\ chars' = lit
       /\ result' = clam_match_chars_to_end(input, lit)
  /\ fn' = "clam_match_chars_to_end"
  /\ UNCHANGED <<input, n, c>>
  /\ UNCHANGED <<loop_vars, main_vars>>

Call_match_numeric10_char ==
  /\ fn = "none"
  /\ result' = clam_match_numeric10_char(input)
  /\ fn' = "clam_match_numeric10_char"
  /\ UNCHANGED <<input, chars, n, c>>
  /\ UNCHANGED <<loop_vars, main_vars>>

Call_match_unsigned_integer10 ==
  /\ fn = "none"
  /\ result' = clam_match_unsigned_integer10(input)
  /\ fn' = "clam_match_unsigned_integer10"
  /\ UNCHANGED <<input, chars, n, c>>
  /\ UNCHANGED <<loop_vars, main_vars>>

Call_match_signed_integer10 ==
  /\ fn = "none"
  /\ result' = clam_match_signed_integer10(input)
  /\ fn' = "clam_match_signed_integer10"
  /\ UNCHANGED <<input, chars, n, c>>
  /\ UNCHANGED <<loop_vars, main_vars>>

Call_match_numeric16_char ==
  /\ fn = "none"
  /\ result' = clam_match_numeric16_char(input)
  /\ fn' = "clam_match_numeric16_char"
  /\ UNCHANGED <<input, chars, n, c>>
  /\ UNCHANGED <<loop_vars, main_vars>>

Call_match_uppercase_char ==
  /\ fn = "none"
  /\ result' = clam_match_uppercase_char(input)
  /\ fn' = "clam_match_uppercase_char"
  /\ UNCHANGED <<input, chars, n, c>>
  /\ UNCHANGED <<loop_vars, main_vars>>

Call_match_lowercase_char ==
  /\ fn = "none"
  /\ result' = clam_match_lowercase_char(input)
  /\ fn' = "clam_match_lowercase_char"
  /\ UNCHANGED <<input, chars, n, c>>
  /\ UNCHANGED <<loop_vars, main_vars>>

Call_match_alpha_char ==
  /\ fn = "none"
  /\ result' = clam_match_alpha_char(input)
  /\ fn' = "clam_match_alpha_char"
  /\ UNCHANGED <<input, chars, n, c>>
  /\ UNCHANGED <<loop_vars, main_vars>>

Call_match_alphanumeric_char ==
  /\ fn = "none"
  /\ result' = clam_match_alphanumeric_char(input)
  /\ fn' = "clam_match_alphanumeric_char"
  /\ UNCHANGED <<input, chars, n, c>>
  /\ UNCHANGED <<loop_vars, main_vars>>

Call_match_posix_option ==
  /\ fn = "none"
  /\ \E allowed \in ParamsOrNull :
       /\ chars' = allowed
       /\ result' = clam_match_posix_option(input, allowed)
  /\ fn' = "clam_match_posix_option"
  /\ UNCHANGED <<input, n, c>>
  /\ UNCHANGED <<loop_vars, main_vars>>

Call_match_posix_long_option ==
  /\ fn = "none"
  /\ \E option \in Params :
       /\ chars' = option
       /\ result' = clam_match_posix_long_option(input, option)
  /\ fn' = "clam_match_posix_long_option"
  /\ UNCHANGED <<input, n, c>>
  /\ UNCHANGED <<loop_vars, main_vars>>

Call_match_posix_flags ==
  /\ fn = "none"
  /\ \E allowed \in ParamsOrNull :
       /\ chars' = allowed
       /\ result' = clam_match_posix_flags(input, allowed)
  /\ fn' = "clam_match_posix_flags"
  /\ UNCHANGED <<input, n, c>>
  /\ UNCHANGED <<loop_vars, main_vars>>

Call_match_posix_terminate_options ==
  /\ fn = "none"
  /\ result' = clam_match_posix_terminate_options(input)
  /\ fn' = "clam_match_posix_terminate_options"
  /\ UNCHANGED <<input, chars, n, c>>
  /\ UNCHANGED <<loop_vars, main_vars>>

Call_match_windows_switch ==
  /\ fn = "none"
  /\ \E allowed \in ParamsOrNull :
       /\ chars' = allowed
       /\ result' = clam_match_windows_switch(input, allowed)
  /\ fn' = "clam_match_windows_switch"
  /\ UNCHANGED <<input, n, c>>
  /\ UNCHANGED <<loop_vars, main_vars>>

Call_match_windows_long_switch ==
  /\ fn = "none"
  /\ \E switch_s \in Params :
       /\ chars' = switch_s
       /\ result' = clam_match_windows_long_switch(input, switch_s)
  /\ fn' = "clam_match_windows_long_switch"
  /\ UNCHANGED <<input, n, c>>
  /\ UNCHANGED <<loop_vars, main_vars>>

Next ==
  \/ Call_match_char
  \/ Call_match_end
  \/ Call_match_anychar
  \/ Call_match_at_least_n_chars
  \/ Call_match_chars
  \/ Call_match_chars_to_end
  \/ Call_match_numeric10_char
  \/ Call_match_unsigned_integer10
  \/ Call_match_signed_integer10
  \/ Call_match_numeric16_char
  \/ Call_match_uppercase_char
  \/ Call_match_lowercase_char
  \/ Call_match_alpha_char
  \/ Call_match_alphanumeric_char
  \/ Call_match_posix_option
  \/ Call_match_posix_long_option
  \/ Call_match_posix_flags
  \/ Call_match_posix_terminate_options
  \/ Call_match_windows_switch
  \/ Call_match_windows_long_switch

Spec == Init /\ [][Next]_vars

(***************************************************************************)
(* The classifiers applied to every ASCII first character.                 *)
(***************************************************************************)
ClassInputs ==
  {Ptr(<<>>)} \cup {Ptr(<<x>> \o t) : x \in 1..MaxChar, t \in Strings(MaxTail)}

InitClass ==
  /\ input \in ClassInputs
  /\ chars = NULL
  /\ n = 0
  /\ c = NUL
  /\ fn = "none"
  /\ result = 0
  /\ pc = "call"
  /\ loop_i = 0
  /\ iters = 0
  /\ argv = <<>>
  /\ a = 0
  /\ ret = -1
  /\ out = <<>>

NextClass ==
  \/ Call_match_numeric10_char
  \/ Call_match_numeric16_char
  \/ Call_match_uppercase_char
  \/ Call_match_lowercase_char
  \/ Call_match_alpha_char
  \/ Call_match_alphanumeric_char

SpecClass == InitClass /\ [][NextClass]_vars

(***************************************************************************)
(* The five scanning loops run one iteration per step.  Enter_ is the code *)
(* before the loop, Iter_ one run of the loop body (the loop condition     *)
(* held), Exit_ the code after the loop (the loop condition failed).       *)
(* loop_i is the C variable i, iters counts the runs of the loop body.     *)
(***************************************************************************)
LoopAlphabet == {DASH, DIGIT1, LOWER_A}

LoopStrings(L) == UNION {[1..k -> LoopAlphabet] : k \in 0..L}

LoopInputs == {Ptr(s) : s \in LoopStrings(MaxLen)}
LoopParams == {Ptr(s) : s \in LoopStrings(MaxParamLen)}

InitLoops ==
  /\ input \in LoopInputs
  /\ chars = NULL
  /\ n = 0
  /\ c = NUL
  /\ fn = "none"
  /\ result = 0
  /\ pc = "call"
  /\ loop_i = 0
  /\ iters = 0
  /\ argv = <<>>
  /\ a = 0
  /\ ret = -1
  /\ out = <<>>

\* the loop condition shared by clam_match_at_least_n_chars and clam_match_chars
lockstep_cond(inp, lit, k) ==
  /\ clam_match_end(Plus(inp, k)) = 0
  /\ clam_match_end(Plus(lit, k)) = 0
  /\ clam_match_char(Plus(inp, k), Deref(lit, k)) # 0

Enter_match_at_least_n_chars ==
  /\ fn = "none"
  /\ \E lit \in LoopParams, min \in 0..MaxN :
       /\ chars' = lit
       /\ n' = min
  /\ fn' = "clam_match_at_least_n_chars"
  /\ pc' = "loop"
  /\ loop_i' = 0
  /\ iters' = 0
  /\ UNCHANGED <<input, c, result, main_vars>>

Iter_match_at_least_n_chars ==
  /\ fn = "clam_match_at_least_n_chars"
  /\ pc = "loop"
  /\ lockstep_cond(input, chars, loop_i)
  /\ loop_i' = loop_i + 1
  /\ iters' = iters + 1
  /\ UNCHANGED <<call_vars, pc, main_vars>>

Exit_match_at_least_n_chars ==
  /\ fn = "clam_match_at_least_n_chars"
  /\ pc = "loop"
  /\ ~ lockstep_cond(input, chars, loop_i)
  /\ result' = IF loop_i >= n THEN loop_i ELSE 0
  /\ pc' = "done"
  /\ UNCHANGED <<input, chars, n, c, fn, loop_i, iters, main_vars>>

Enter_match_chars ==
  /\ fn = "none"
  /\ \E lit \in LoopParams : chars' = lit
  /\ fn' = "clam_match_chars"
  /\ pc' = "loop"
  /\ loop_i' = 0
  /\ iters' = 0
  /\ UNCHANGED <<input, n, c, result, main_vars>>

Iter_match_chars ==
  /\ fn = "clam_match_chars"
  /\ pc = "loop"
  /\ lockstep_cond(input, chars, loop_i)
  /\ loop_i' = loop_i + 1
  /\ iters' = iters + 1
  /\ UNCHANGED <<call_vars, pc, main_vars>>

Exit_match_chars ==
  /\ fn = "clam_match_chars"
  /\ pc = "loop"
  /\ ~ lockstep_cond(input, chars, loop_i)
  /\ result' = IF clam_match_end(Plus(chars, loop_i)) # 0 THEN loop_i ELSE 0
  /\ pc' = "done"
  /\ UNCHANGED <<input, chars, n, c, fn, loop_i, iters, main_vars>>

\* the set scan of clam_match_anychar scanning as far as input, not the set, reaches
anychar_cond_input(inp, set, k, res) ==
  res = 0 /\ clam_match_end(Plus(inp, k)) = 0

\* the loop condition of clam_match_anychar
anychar_cond(inp, set, k, res) ==
  res = 0 /\ clam_match_end(Plus(set, k)) = 0

\* the two early returns of clam_match_anychar, or the entry into its loop
Enter_match_anychar ==
  /\ fn = "none"
  /\ \E set \in LoopParams \cup {NULL} :
       /\ chars' = set
       /\ IF clam_match_end(input) # 0
          THEN result' = 0 /\ pc' = "done"
          ELSE IF set = NULL
          THEN result' = 1 /\ pc' = "done"
          ELSE result' = 0 /\ pc' = "loop"
  /\ fn' = "clam_match_anychar"
  /\ loop_i' = 0
  /\ iters' = 0
  /\ UNCHANGED <<input, n, c, main_vars>>

\* one run of the body: a match breaks out of the loop and returns
Iter_match_anychar ==
  /\ fn = "clam_match_anychar"
  /\ pc = "loop"
  /\ anychar_cond(input, chars, loop_i, result)
  /\ result' = clam_match_char(input, Deref(chars, loop_i))
  /\ IF result' # 0
     THEN pc' = "done" /\ loop_i' = loop_i
     ELSE pc' = "loop" /\ loop_i' = loop_i + 1
  /\ iters' = iters + 1
  /\ UNCHANGED <<input, chars, n, c, fn, main_vars>>

Exit_match_anychar ==
  /\ fn = "clam_match_anychar"
  /\ pc = "loop"
  /\ ~ anychar_cond(input, chars, loop_i, result)
  /\ pc' = "done"
  /\ UNCHANGED <<call_vars, loop_i, iters, main_vars>>

Enter_match_unsigned_integer10 ==
  /\ fn = "none"
  /\ fn' = "clam_match_unsigned_integer10"
  /\ pc' = "loop"
  /\ loop_i' = 0
  /\ iters' = 0
  /\ UNCHANGED <<input, chars, n, c, result, main_vars>>

Iter_match_unsigned_integer10 ==
  /\ fn = "clam_match_unsigned_integer10"
  /\ pc = "loop"
  /\ clam_match_numeric10_char(Plus(input, loop_i)) # 0
  /\ loop_i' = loop_i + 1
  /\ iters' = iters + 1
  /\ UNCHANGED <<call_vars, pc, main_vars>>

Exit_match_unsigned_integer10 ==
  /\ fn = "clam_match_unsigned_integer10"
  /\ pc = "loop"
  /\ clam_match_numeric10_char(Plus(input, loop_i)) = 0
  /\ result' = loop_i
  /\ pc' = "done"
  /\ UNCHANGED <<input, chars, n, c, fn, loop_i, iters, main_vars>>

\* i = clam_match_char(input, '-'): return 0 without a dash, else enter the loop
Enter_match_posix_flags ==
  /\ fn = "none"
  /\ \E allowed \in LoopParams \cup {NULL} : chars' = allowed
  /\ fn' = "clam_match_posix_flags"
  /\ loop_i' = clam_match_char(input, DASH)
  /\ IF loop_i' = 0
     THEN result' = 0 /\ pc' = "done"
     ELSE result' = result /\ pc' = "loop"
  /\ iters' = 0
  /\ UNCHANGED <<input, n, c, main_vars>>

\* one run of the body: a rejected character returns 0 from inside the loop
Iter_match_posix_flags ==
  /\ fn = "clam_match_posix_flags"
  /\ pc = "loop"
  /\ clam_match_end(Plus(input, loop_i)) = 0
  /\ IF ~ (/\ clam_match_alphanumeric_char(Plus(input, loop_i)) # 0
           /\ clam_match_anychar(Plus(input, loop_i), chars) # 0)
     THEN result' = 0 /\ pc' = "done" /\ loop_i' = loop_i
     ELSE result' = result /\ pc' = "loop" /\ loop_i' = loop_i + 1
  /\ iters' = iters + 1
  /\ UNCHANGED <<input, chars, n, c, fn, main_vars>>

Exit_match_posix_flags ==
  /\ fn = "clam_match_posix_flags"
  /\ pc = "loop"
  /\ clam_match_end(Plus(input, loop_i)) # 0
  /\ result' = IF loop_i > 1 THEN loop_i ELSE 0
  /\ pc' = "done"
  /\ UNCHANGED <<input, chars, n, c, fn, loop_i, iters, main_vars>>

NextLoops ==
  \/ Enter_match_at_least_n_chars
  \/ Iter_match_at_least_n_chars
  \/ Exit_match_at_least_n_chars
  \/ Enter_match_chars
  \/ Iter_match_chars
  \/ Exit_match_chars
  \/ Enter_match_anychar
  \/ Iter_match_anychar
  \/ Exit_match_anychar
  \/ Enter_match_unsigned_integer10
  \/ Iter_match_unsigned_integer10
  \/ Exit_match_unsigned_integer10
  \/ Enter_match_posix_flags
  \/ Iter_match_posix_flags
  \/ Exit_match_posix_flags

\* a called function keeps running: some step is always taken while one is enabled
SpecLoops == InitLoops /\ [][NextLoops]_vars /\ WF_vars(NextLoops)

(***************************************************************************)
(* The example driver (example.c): main walks argv with the index a, and   *)
(* each step is one iteration of its for loop, or its end.  ret is the     *)
(* value returned from main (-1 while it runs), out what it has printed.   *)
(***************************************************************************)
\* the string literals of example.c
STR_h == <<104>>
STR_dash_help == <<45, 104, 101, 108, 112>>
STR_link == <<108, 105, 110, 107>>
STR_dash_link == <<45, 108, 105, 110, 107>>
STR_l == <<108>>
STR_Ff == <<70, 102>>
EQUALS == 61

\* "name"
STR_name == <<110, 97, 109, 101>>

\* the arguments the driver is run on:
\*   "-lname", "-l", "name", "--link", "--link=name", "-link", "-link=name",
\*   "--linkx", "-linkx", "--link=", "-h", "--help", "/f", ""
ArgMenu ==
  { <<45, 108>> \o STR_name,
    <<45, 108>>,
    STR_name,
    <<45, 45>> \o STR_link,
    <<45, 45>> \o STR_link \o <<61>> \o STR_name,
    <<45>> \o STR_link,
    <<45>> \o STR_link \o <<61>> \o STR_name,
    <<45, 45>> \o STR_link \o <<120>>,
    <<45>> \o STR_link \o <<120>>,
    <<45, 45>> \o STR_link \o <<61>>,
    <<45, 104>>,
    <<45>> \o STR_dash_help,
    <<47, 102>>,
    <<>> }

\* every argument vector of at most L arguments
ArgVectors(L) == UNION {[1..k -> ArgMenu] : k \in 0..L}

InitMain ==
  /\ argv \in ArgVectors(MaxArgc)
  /\ a = 0
  /\ ret = -1
  /\ out = <<>>
  /\ input = Ptr(<<>>)
  /\ chars = NULL
  /\ n = 0
  /\ c = NUL
  /\ fn = "none"
  /\ result = 0
  /\ pc = "call"
  /\ loop_i = 0
  /\ iters = 0

argc == Len(argv)

\* argv[k] for k < argc
Arg(k) == Ptr(argv[k + 1])

\* what printf("%s", p) prints
CStr(p) == SubSeq(p.s, p.o + 1, Len(p.s))

\* one line of output
Printed(kind, value) == [kind |-> kind, value |-> value]

\* the condition of the first if: -h or --help
help_match(arg) ==
  \/ clam_match_posix_option(arg, Ptr(STR_h)) # 0
  \/ clam_match_posix_long_option(arg, Ptr(STR_dash_help)) # 0

\* the link alternatives tried with the short option first
link_match_short_first(arg) ==
  LET i3 == clam_match_posix_option(arg, Ptr(STR_l))
      i1 == clam_match_posix_long_option(arg, Ptr(STR_link))
      i2 == clam_match_posix_long_option(arg, Ptr(STR_dash_link))
  IN  IF i3 # 0 THEN [i |-> i3, longopt |-> FALSE]
      ELSE IF i1 # 0 THEN [i |-> i1, longopt |-> TRUE]
      ELSE [i |-> i2, longopt |-> TRUE]

\* the condition of the second if: the ordered alternatives "link", "-link"
\* (long options) and "l" (short option); i and longopt as the first
\* non-zero result leaves them
link_match(arg) ==
  LET i1 == clam_match_posix_long_option(arg, Ptr(STR_link))
      i2 == clam_match_posix_long_option(arg, Ptr(STR_dash_link))
      i3 == clam_match_posix_option(arg, Ptr(STR_l))
  IN  IF i1 # 0 THEN [i |-> i1, longopt |-> TRUE]
      ELSE IF i2 # 0 THEN [i |-> i2, longopt |-> TRUE]
      ELSE [i |-> i3, longopt |-> FALSE]

\* a long option followed by something other than the end or '='
link_trailer(arg) ==
  LET m == link_match(arg)
  IN  /\ m.longopt
      /\ clam_match_end(Plus(arg, m.i)) = 0
      /\ clam_match_char(Plus(arg, m.i), EQUALS) = 0

\* eq: 1 when a long option is followed by '='
link_eq(arg) ==
  LET m == link_match(arg)
  IN  IF m.longopt THEN clam_match_char(Plus(arg, m.i), EQUALS) ELSE 0

\* arg after arg += i
link_cursor(arg) == Plus(arg, link_match(arg).i + link_eq(arg))

\* the value is the next entry of argv
link_next(arg) ==
  link_eq(arg) = 0 /\ clam_match_end(link_cursor(arg)) # 0

\* the values one iteration of the loop computes from arg = argv[a]: the
\* conditions of its if statements, i, and the texts it would print
iteration(arg) ==
  [ help    |-> help_match(arg),
    i       |-> link_match(arg).i,
    trailer |-> link_trailer(arg),
    rest    |-> CStr(Plus(arg, link_match(arg).i)),
    next    |-> link_next(arg),
    value   |-> CStr(link_cursor(arg)),
    switch  |-> clam_match_windows_switch(arg, Ptr(STR_Ff)) ]

\* iteration, tabulated over the arguments a vector can hold
Iterations == [s \in ArgMenu |-> iteration(Ptr(s))]

\* the iteration on argv[k]
Iter(k) == Iterations[argv[k + 1]]

\* the /f branch is taken
switch_match(it) ==
  /\ ~ it.help
  /\ it.i = 0
  /\ it.switch # 0

\* the link branch reaches arg = argv[++a]
link_takes_next(it) ==
  /\ ~ it.help
  /\ it.i # 0
  /\ ~ it.trailer
  /\ it.next

\* the indices at which the coming iteration reads argv: argv[a], and
\* argv[++a] in the link and /f branches
ArgvReads ==
  IF ret = -1 /\ a < argc
  THEN {a} \cup (IF link_takes_next(Iter(a)) \/ switch_match(Iter(a))
                 THEN {a + 1} ELSE {})
  ELSE {}

\* the indices whose entry the coming iteration dereferences: argv[a] by the
\* matchers, argv[++a] by printf once a == argc (link) or a < argc (/f) is tested
ArgvDerefs ==
  IF ret = -1 /\ a < argc
  THEN {a} \cup (IF link_takes_next(Iter(a)) /\ ~ (a + 1 = argc)
                 THEN {a + 1} ELSE {})
           \cup (IF switch_match(Iter(a)) /\ a + 1 < argc
                 THEN {a + 1} ELSE {})
  ELSE {}

Main_Help ==
  /\ ret = -1
  /\ a < argc
  /\ Iter(a).help
  /\ out' = Append(out, Printed("usage", <<>>))
  /\ ret' = 0
  /\ UNCHANGED <<argv, a, call_vars, loop_vars>>

Main_LinkTrailer ==
  /\ ret = -1
  /\ a < argc
  /\ ~ Iter(a).help
  /\ Iter(a).i # 0
  /\ Iter(a).trailer
  /\ out' = Append(out, Printed("invalid trailer", Iter(a).rest))
  /\ ret' = 1
  /\ UNCHANGED <<argv, a, call_vars, loop_vars>>

\* arg = argv[++a] is the terminating NULL entry
Main_LinkMissing ==
  /\ ret = -1
  /\ a < argc
  /\ link_takes_next(Iter(a))
  /\ a + 1 = argc
  /\ a' = a + 1
  /\ out' = Append(out, Printed("link requires an argument", <<>>))
  /\ ret' = 1
  /\ UNCHANGED <<argv, call_vars, loop_vars>>

Main_Link ==
  /\ ret = -1
  /\ a < argc
  /\ ~ Iter(a).help
  /\ Iter(a).i # 0
  /\ ~ Iter(a).trailer
  /\ IF Iter(a).next
     THEN /\ a + 1 < argc
          /\ out' = Append(out, Printed("linking with", CStr(Arg(a + 1))))
          /\ a' = a + 2
     ELSE /\ out' = Append(out, Printed("linking with", Iter(a).value))
          /\ a' = a + 1
  /\ UNCHANGED <<argv, ret, call_vars, loop_vars>>

Main_Switch ==
  /\ ret = -1
  /\ a < argc
  /\ switch_match(Iter(a))
  /\ IF a + 1 < argc
     THEN out' = Append(out, Printed("doing something with", CStr(Arg(a + 1))))
     ELSE out' = Append(out, Printed("using a default with /f", <<>>))
  /\ a' = a + 2
  /\ UNCHANGED <<argv, ret, call_vars, loop_vars>>

\* an unmatched argument that does not reach the a++ of the for statement
Main_Skip_no_advance ==
  /\ ret = -1
  /\ a < argc
  /\ ~ Iter(a).help
  /\ Iter(a).i = 0
  /\ Iter(a).switch = 0
  /\ a' = a
  /\ UNCHANGED <<argv, ret, out, call_vars, loop_vars>>

Main_Skip ==
  /\ ret = -1
  /\ a < argc
  /\ ~ Iter(a).help
  /\ Iter(a).i = 0
  /\ Iter(a).switch = 0
  /\ a' = a + 1
  /\ UNCHANGED <<argv, ret, out, call_vars, loop_vars>>

\* the loop condition a < argc fails and main ends
Main_Exit ==
  /\ ret = -1
  /\ a >= argc
  /\ ret' = 0
  /\ UNCHANGED <<argv, a, out, call_vars, loop_vars>>

NextMain ==
  \/ Main_Help
  \/ Main_LinkTrailer
  \/ Main_LinkMissing
  \/ Main_Link
  \/ Main_Switch
  \/ Main_Skip
  \/ Main_Exit

SpecMain == InitMain /\ [][NextMain]_vars

\* main is a sequential program that keeps running: a step that is possible
\* is eventually taken
SpecMainFair == InitMain /\ [][NextMain]_vars /\ WF_vars(NextMain)

(***************************************************************************)
(* Properties.  Each is stated over the state left by a call: the matcher  *)
(* called (fn), its arguments (input, chars, n, c) and its result.  The    *)
(* right-hand sides are written over the string contents, not with the     *)
(* matchers' own loops.                                                    *)
(***************************************************************************)
\* t is a prefix of s
IsPrefix(t, s) == Len(t) <= Len(s) /\ \A j \in 1..Len(t) : s[j] = t[j]

\* the length of the longest common prefix of s and t
CommonPrefixLen(s, t) ==
  LET m == IF Len(s) < Len(t) THEN Len(s) ELSE Len(t)
  IN  CHOOSE k \in 0..m :
        /\ \A j \in 1..k : s[j] = t[j]
        /\ k = m \/ s[k + 1] # t[k + 1]

\* the allow-set accepts ch: it is the NULL wildcard or contains ch
Accepts(set, ch) == set = NULL \/ \E j \in 1..Len(set.s) : set.s[j] = ch

\* the first k characters of s (all of s when it is shorter)
Take(s, k) == SubSeq(s, 1, IF Len(s) < k THEN Len(s) ELSE k)

\* C1 as stated: every matcher other than clam_match_end, clam_match_char
\* for every c included, returns 0 or a length that does not exceed
\* strlen(input).
C1_Original ==
  (fn \notin {"none", "clam_match_end"} /\ result # 0)
    => result <= Len(input.s)

\* C1, amended: every matcher other than clam_match_end, and other than
\* clam_match_char called with the terminator as c, returns 0 or a valid
\* prefix length of input, 1..strlen(input).
C1_PrefixLength ==
  (/\ fn \notin {"none", "clam_match_end"}
   /\ ~ (fn = "clam_match_char" /\ c = NUL)
   /\ result # 0)
    => result \in 1..Len(input.s)

C1_Witness ==
  /\ fn = "clam_match_posix_flags"
  /\ result = 3
  /\ Len(input.s) = 3

\* C2: clam_match_chars returns strlen(chars) when chars is non-empty and a
\* prefix of input, and 0 in every other case.
C2_MatchChars ==
  fn = "clam_match_chars" =>
    /\ result = IF chars.s # <<>> /\ IsPrefix(chars.s, input.s)
                THEN Len(chars.s) ELSE 0
    /\ result \in {0, Len(chars.s)}
    /\ (chars.s = <<>> \/ input.s = <<>> \/ Len(input.s) < Len(chars.s))
         => result = 0

C2_Witness ==
  /\ fn = "clam_match_chars"
  /\ result = 2
  /\ Len(input.s) = 3

\* C3: clam_match_chars_to_end returns strlen(chars) iff chars is non-empty
\* and input equals chars, and 0 otherwise.
C3_MatchCharsToEnd ==
  fn = "clam_match_chars_to_end" =>
    /\ result = IF chars.s # <<>> /\ input.s = chars.s
                THEN Len(chars.s) ELSE 0
    /\ (\/ Len(input.s) # Len(chars.s)
        \/ input.s = <<>>
        \/ chars.s = <<>>) => result = 0

C3_Witness ==
  /\ fn = "clam_match_chars_to_end"
  /\ result = 2
  /\ input.s = chars.s

\* C4: with i the length of the longest common prefix of input and chars,
\* clam_match_at_least_n_chars returns i when i >= n and 0 otherwise; the
\* result is 0 or lies in n..strlen(input), and is 0 when input is shorter
\* than n or the first n characters of input and chars differ.
C4_AtLeastN ==
  fn = "clam_match_at_least_n_chars" =>
    LET i == CommonPrefixLen(input.s, chars.s)
        differ == \/ Len(chars.s) < n
                  \/ \E j \in 1..n : input.s[j] # chars.s[j]
    IN  /\ result = IF i >= n THEN i ELSE 0
        /\ result = 0 \/ result \in n..Len(input.s)
        /\ Len(input.s) < n => result = 0
        /\ (Len(input.s) >= n /\ differ) => result = 0

C4_Witness ==
  /\ fn = "clam_match_at_least_n_chars"
  /\ n = 1
  /\ result = 2
  /\ Len(input.s) = 3

\* C5: clam_match_anychar returns 1 iff input is non-empty and the set is
\* the NULL wildcard or contains input's first character, and 0 otherwise;
\* the wildcard and the empty set are distinct.
C5_AnyChar ==
  fn = "clam_match_anychar" =>
    /\ result = IF input.s # <<>> /\ Accepts(chars, input.s[1])
                THEN 1 ELSE 0
    /\ (input.s # <<>> /\ chars = NULL) => result = 1
    /\ (input.s # <<>> /\ chars = Ptr(<<>>)) => result = 0
    /\ input.s = <<>> => result = 0

C5_Witness ==
  /\ fn = "clam_match_anychar"
  /\ chars # NULL
  /\ Len(chars.s) = 2
  /\ chars.s[1] # input.s[1]
  /\ chars.s[2] = input.s[1]
  /\ result = 1

\* C6 as stated: clam_match_char(s, c) is 1 iff s is non-empty and its
\* first character equals c, for every character c.
C6_Original ==
  fn = "clam_match_char" =>
    /\ result \in {0, 1}
    /\ result = 1 <=> (input.s # <<>> /\ input.s[1] = c)

\* C6, amended: for every c other than the terminator, clam_match_char(s, c)
\* is 1 iff s is non-empty and its first character equals c; with the
\* terminator as c it is 1 iff s is empty; the result is always 0 or 1.
C6_MatchChar ==
  fn = "clam_match_char" =>
    /\ result \in {0, 1}
    /\ result = 1 <=> IF c = NUL THEN input.s = <<>>
                      ELSE input.s # <<>> /\ input.s[1] = c

C6_Witness ==
  /\ fn = "clam_match_char"
  /\ c = DASH
  /\ Len(input.s) = 2
  /\ result = 1

\* C7: clam_match_end returns 1 iff input is empty and 0 otherwise, and
\* equals clam_match_char(input, terminator).
C7_MatchEnd ==
  fn = "clam_match_end" =>
    /\ result = IF input.s = <<>> THEN 1 ELSE 0
    /\ result = clam_match_char(input, NUL)

C7_Witness ==
  /\ fn = "clam_match_end"
  /\ input.s = <<>>
  /\ result = 1

\* C8: clam_match_posix_option returns 2 iff input[0] is '-', input[1] is
\* alphanumeric and allowed is NULL or contains input[1], and 0 otherwise;
\* the result does not depend on input past its second character, and a
\* bare "-" never matches.
C8_PosixOption ==
  fn = "clam_match_posix_option" =>
    /\ result = IF /\ Len(input.s) >= 2
                   /\ input.s[1] = DASH
                   /\ is_alphanumeric_char(input.s[2])
                   /\ Accepts(chars, input.s[2])
                THEN 2 ELSE 0
    /\ result = clam_match_posix_option(Ptr(Take(input.s, 2)), chars)
    /\ input.s = <<DASH>> => result = 0

C8_Witness ==
  /\ fn = "clam_match_posix_option"
  /\ chars # NULL
  /\ Len(input.s) = 3
  /\ result = 2

\* C9: clam_match_posix_flags returns non-zero iff input is '-' followed by
\* one or more characters that are all alphanumeric and accepted by
\* allowed; a non-zero result is the whole consumed length and lies in
\* 2..strlen(input).
C9_PosixFlags ==
  fn = "clam_match_posix_flags" =>
    LET flags == /\ Len(input.s) >= 2
                 /\ input.s[1] = DASH
                 /\ \A j \in 2..Len(input.s) :
                      /\ is_alphanumeric_char(input.s[j])
                      /\ Accepts(chars, input.s[j])
    IN  /\ result # 0 <=> flags
        /\ result # 0 => result = Len(input.s) /\ result \in 2..Len(input.s)
        /\ (input.s = <<>> \/ input.s[1] # DASH \/ input.s = <<DASH>>)
             => result = 0

C9_Witness ==
  /\ fn = "clam_match_posix_flags"
  /\ chars # NULL
  /\ Len(chars.s) = 2
  /\ result = 3
  /\ input.s[2] # input.s[3]

\* C10: clam_match_posix_long_option returns strlen(option) + 1 iff
\* input[0] is '-', option is non-empty and option is a prefix of what
\* follows the dash, and 0 otherwise; it is never 1.
C10_PosixLongOption ==
  fn = "clam_match_posix_long_option" =>
    /\ result = IF /\ input.s # <<>>
                   /\ input.s[1] = DASH
                   /\ chars.s # <<>>
                   /\ IsPrefix(chars.s, Tail(input.s))
                THEN Len(chars.s) + 1 ELSE 0
    /\ result # 1

C10_Witness ==
  /\ fn = "clam_match_posix_long_option"
  /\ Len(input.s) = 3
  /\ result = 2


\* the length of the maximal leading run of base-10 digits of s
DigitRun(s) ==
  CHOOSE k \in 0..Len(s) :
    /\ \A j \in 1..k : s[j] \in 48..57
    /\ k = Len(s) \/ s[k + 1] \notin 48..57

\* C11: clam_match_posix_terminate_options returns 2 iff input is exactly
\* "--" and 0 for every other input; it never returns 1, and a result of 0
\* implies strlen(input) != 2 or input[0] != '-' or input[1] != '-'.
C11_TerminateOptions ==
  fn = "clam_match_posix_terminate_options" =>
    /\ result = IF input.s = <<DASH, DASH>> THEN 2 ELSE 0
    /\ result # 1
    /\ result = 0 =>
         \/ Len(input.s) # 2
         \/ input.s[1] # DASH
         \/ input.s[2] # DASH

C11_Witness ==
  /\ fn = "clam_match_posix_terminate_options"
  /\ input.s = <<DASH, DASH>>
  /\ result = 2

\* C12: the Windows matchers mirror the POSIX ones with '/' for '-': on
\* "/" + t, clam_match_windows_switch equals clam_match_posix_option on
\* "-" + t (0 or 2) and clam_match_windows_long_switch equals
\* clam_match_posix_long_option on "-" + t (0 or strlen(w) + 1, 0 for empty
\* w); both return 0 when the first character is not '/'.
C12_WindowsMirror ==
  LET slashed == input.s # <<>> /\ input.s[1] = SLASH
      dashed == Ptr(<<DASH>> \o Tail(input.s))
  IN  /\ fn = "clam_match_windows_switch" =>
           IF slashed
           THEN /\ result = clam_match_posix_option(dashed, chars)
                /\ result \in {0, 2}
           ELSE result = 0
      /\ fn = "clam_match_windows_long_switch" =>
           IF slashed
           THEN /\ result = clam_match_posix_long_option(dashed, chars)
                /\ result \in {0, Len(chars.s) + 1}
                /\ chars.s = <<>> => result = 0
           ELSE result = 0

C12_Witness ==
  /\ fn = "clam_match_windows_long_switch"
  /\ Len(input.s) = 3
  /\ Len(chars.s) = 1
  /\ result = 2

\* C13: with s = 1 if input starts with '+' or '-' and 0 otherwise, and d
\* the run of digits after the first s characters,
\* clam_match_signed_integer10 returns s + d when d > 0 and 0 when d = 0;
\* a lone sign, a doubled sign, empty input and a non-digit non-sign start
\* give 0, and the result never exceeds strlen(input).
C13_SignedInteger ==
  fn = "clam_match_signed_integer10" =>
    LET s == IF input.s # <<>> /\ input.s[1] \in {PLUS, DASH} THEN 1 ELSE 0
        rest == SubSeq(input.s, s + 1, Len(input.s))
        d == DigitRun(rest)
    IN  /\ d = clam_match_unsigned_integer10(Plus(input, s))
        /\ result = IF d > 0 THEN s + d ELSE 0
        /\ result <= Len(input.s)
        /\ input.s = <<>> => result = 0
        /\ (Len(input.s) = 1 /\ s = 1) => result = 0
        /\ (Len(input.s) >= 2 /\ s = 1 /\ input.s[2] \in {PLUS, DASH})
             => result = 0
        /\ (input.s # <<>> /\ s = 0 /\ input.s[1] \notin 48..57)
             => result = 0

C13_Witness ==
  /\ fn = "clam_match_signed_integer10"
  /\ Len(input.s) = 3
  /\ input.s[1] = PLUS
  /\ result = 2

\* C14: clam_match_unsigned_integer10 returns the length k of the maximal
\* leading run of digits: characters 0..k-1 are digits and character k
\* (possibly the terminator) is not; it is 0 when input is empty or does
\* not start with a digit, and 0 <= k <= strlen(input).
C14_UnsignedInteger ==
  fn = "clam_match_unsigned_integer10" =>
    /\ result = DigitRun(input.s)
    /\ result \in 0..Len(input.s)
    /\ \A j \in 0..(result - 1) : Deref(input, j) \in 48..57
    /\ Deref(input, result) \notin 48..57
    /\ (input.s = <<>> \/ input.s[1] \notin 48..57) => result = 0

C14_Witness ==
  /\ fn = "clam_match_unsigned_integer10"
  /\ Len(input.s) = 3
  /\ result = 2

\* C20: clam_match_chars is clam_match_at_least_n_chars with n the length
\* of the literal, for every input and every chars, empty ones included.
C20_CharsIsAtLeastN ==
  fn = "clam_match_chars" =>
    result = clam_match_at_least_n_chars(input, Len(chars.s), chars)

C20_Witness ==
  /\ fn = "clam_match_chars"
  /\ Len(chars.s) = 2
  /\ Len(input.s) = 3
  /\ input.s[1] = chars.s[1]
  /\ input.s[2] # chars.s[2]
  /\ result = 0

\* C15: each of the six classifiers looks only at input's first character
\* and returns 1 exactly when it lies in its ASCII range, 0 otherwise:
\* numeric10 '0'-'9'; numeric16 '0'-'9', 'A'-'F', 'a'-'f'; uppercase
\* 'A'-'Z'; lowercase 'a'-'z'; alpha either case; alphanumeric alpha or
\* numeric10.  Each returns 0 on empty input and the result is 0 or 1.
C15_Classifiers ==
  LET In(range) == IF input.s # <<>> /\ input.s[1] \in range THEN 1 ELSE 0
      first == Ptr(Take(input.s, 1))
  IN  /\ fn = "clam_match_numeric10_char" =>
           /\ result = In(48..57)
           /\ result = clam_match_numeric10_char(first)
      /\ fn = "clam_match_numeric16_char" =>
           /\ result = In(48..57 \cup 65..70 \cup 97..102)
           /\ result = clam_match_numeric16_char(first)
      /\ fn = "clam_match_uppercase_char" =>
           /\ result = In(65..90)
           /\ result = clam_match_uppercase_char(first)
      /\ fn = "clam_match_lowercase_char" =>
           /\ result = In(97..122)
           /\ result = clam_match_lowercase_char(first)
      /\ fn = "clam_match_alpha_char" =>
           /\ result = In(65..90 \cup 97..122)
           /\ result = clam_match_alpha_char(first)
      /\ fn = "clam_match_alphanumeric_char" =>
           /\ result = In(65..90 \cup 97..122 \cup 48..57)
           /\ result = clam_match_alphanumeric_char(first)
      /\ fn # "none" => result \in {0, 1}
      /\ (fn # "none" /\ input.s = <<>>) => result = 0

C15_Witness ==
  /\ fn = "clam_match_numeric16_char"
  /\ Len(input.s) = 2
  /\ input.s[1] = 102
  /\ result = 1

\* The loops run step by step return what the matchers return.
LoopsAgree ==
  pc = "done" =>
    /\ fn = "clam_match_at_least_n_chars" =>
         result = clam_match_at_least_n_chars(input, n, chars)
    /\ fn = "clam_match_chars" => result = clam_match_chars(input, chars)
    /\ fn = "clam_match_anychar" => result = clam_match_anychar(input, chars)
    /\ fn = "clam_match_unsigned_integer10" =>
         result = clam_match_unsigned_integer10(input)
    /\ fn = "clam_match_posix_flags" =>
         result = clam_match_posix_flags(input, chars)

\* the number of iterations each scanning loop may run
LoopBound ==
  LET m == IF Len(input.s) < Len(chars.s) THEN Len(input.s) ELSE Len(chars.s)
  IN  /\ fn \in {"clam_match_chars", "clam_match_at_least_n_chars"} => iters <= m
      /\ fn = "clam_match_anychar" => iters <= Len(chars.s)
      /\ fn \in {"clam_match_unsigned_integer10", "clam_match_posix_flags"}
           => iters <= Len(input.s)

\* C16: every matcher call terminates, and every scanning loop is bounded:
\* the lock-step loops of clam_match_chars and clam_match_at_least_n_chars
\* run at most min(strlen(input), strlen(chars)) iterations, the set scan
\* of clam_match_anychar at most strlen(set), and the loops of
\* clam_match_unsigned_integer10 and clam_match_posix_flags at most
\* strlen(input).
C16_LoopsTerminate == [](LoopBound) /\ <>(pc = "done")

C16_Witness ==
  /\ fn = "clam_match_posix_flags"
  /\ pc = "done"
  /\ iters = 2
  /\ Len(input.s) = 3
  /\ result = 3

\* the arguments that end right after the option: "-l", "--link", "-link"
BareLinkArgs == {<<45>> \o STR_l, <<45>> \o STR_dash_link, <<45>> \o STR_link}

\* the arguments that carry the value "name": "-lname", "--link=name",
\* "-link=name"
NameLinkArgs ==
  { <<45>> \o STR_l \o STR_name,
    <<45>> \o STR_dash_link \o <<EQUALS>> \o STR_name,
    <<45>> \o STR_link \o <<EQUALS>> \o STR_name }

\* a long form followed by a trailer that is neither the end nor '=':
\* "--linkx", "-linkx"
TrailerLinkArgs ==
  {<<45>> \o STR_dash_link \o <<120>>, <<45>> \o STR_link \o <<120>>}

\* C18: in the example driver every argument form of the usage text yields
\* the value "name" ("-lname", "-l" "name", "--link" "name", "--link=name",
\* "-link" "name", "-link=name"); the next argv entry is consumed as the
\* value exactly when the cursor reaches the end of the argument without
\* having consumed '='; a long form followed by another trailer returns 1,
\* and a missing value at the end of argv returns 1.
C18_LinkForms ==
  [][ (ret = -1 /\ a < argc) =>
        LET arg == argv[a + 1]
            linked == /\ Len(out') = Len(out) + 1
                      /\ out'[Len(out')].kind = "linking with"
        IN  /\ (\/ arg \in NameLinkArgs
                \/ /\ arg \in BareLinkArgs
                   /\ a + 1 < argc
                   /\ argv[a + 2] = STR_name)
                 => /\ out' = Append(out, Printed("linking with", STR_name))
                    /\ ret' = -1
            /\ linked => /\ arg \in BareLinkArgs <=> a' = a + 2
                         /\ arg \notin BareLinkArgs <=> a' = a + 1
            /\ (linked /\ arg \in BareLinkArgs)
                 => out'[Len(out')].value = argv[a + 2]
            /\ arg \in TrailerLinkArgs => ret' = 1
            /\ (arg \in BareLinkArgs /\ a + 1 = argc) => ret' = 1
    ]_vars

C18_Witness ==
  /\ Len(argv) = 3
  /\ argv[2] = <<45>> \o STR_dash_link
  /\ argv[3] = STR_name
  /\ a = 3
  /\ ret = -1
  /\ Len(out) >= 1
  /\ out[Len(out)] = Printed("linking with", STR_name)

\* C19: no matcher reads a character beyond the terminator of any of its
\* arguments: every pointer it or a matcher it calls dereferences (into
\* input, into the literal or allow-set, or into the sign and dash tables)
\* points at or before the terminator of its string.
C19_NoReadPastTerminator ==
  fn # "none" => \A p \in Reads : p.o >= 0 /\ p.o <= Len(p.s)

\* a call that reads the terminator itself: clam_match_chars_to_end after a
\* full match
C19_Witness ==
  /\ fn = "clam_match_chars_to_end"
  /\ result = 2
  /\ Plus(input, 2) \in Reads
  /\ Plus(chars, 2) \in Reads

\* C21: clam_match_posix_flags matches the whole argument or nothing: a
\* non-zero result equals strlen(input), and clam_match_posix_option is
\* then 2 for the same allowed; on every input of length exactly 2 the two
\* matchers return the same value.
C21_FlagsAllOrNothing ==
  /\ fn = "clam_match_posix_flags" =>
       /\ result # 0 =>
            /\ result = Len(input.s)
            /\ clam_match_posix_option(input, chars) = 2
       /\ Len(input.s) = 2 => result = clam_match_posix_option(input, chars)
  /\ (fn = "clam_match_posix_option" /\ Len(input.s) = 2) =>
       result = clam_match_posix_flags(input, chars)

C21_Witness ==
  /\ fn = "clam_match_posix_flags"
  /\ chars # NULL
  /\ Len(input.s) = 3
  /\ result = 3

\* C22: the driver terminates on every argument list: each iteration returns
\* or increases a by 1, or by 2 when it also read the following entry; the
\* loop ends once a >= argc; argv is read at no index above argc, and the
\* entry at index argc is read only to return 1 (link) or to leave the loop
\* (/f), never dereferenced.
C22_Iteration ==
  ret = -1 =>
    \/ ret' # -1
    \/ ret' = -1 /\ a' = a + 1 /\ (a + 1) \notin ArgvReads
    \/ ret' = -1 /\ a' = a + 2 /\ (a + 1) \in ArgvReads

C22_LoopExit ==
  (ret = -1 /\ a >= argc) => (ret' = 0 /\ a' = a)

C22_NullEntry ==
  (ret = -1 /\ argc \in ArgvReads) =>
    \/ link_takes_next(Iter(a)) /\ ret' = 1
    \/ switch_match(Iter(a)) /\ ret' = -1 /\ a' = argc + 1
                            /\ out' = Append(out, Printed("using a default with /f", <<>>))

C22_ArgvBound ==
  /\ a \in 0..(argc + 1)
  /\ \A k \in ArgvReads : k \in 0..argc
  /\ \A k \in ArgvDerefs : k \in 0..(argc - 1)
  /\ (ret = -1 /\ a >= argc) => ArgvReads = {}

C22_DriverTerminates ==
  /\ [][C22_Iteration /\ C22_LoopExit /\ C22_NullEntry]_vars
  /\ [](C22_ArgvBound)
  /\ <>(ret # -1)

C22_Witness ==
  /\ ret = 0
  /\ argc = 3
  /\ a = argc + 1
  /\ Len(out) = 2
  /\ out[1] = Printed("linking with", STR_name)
  /\ out[2] = Printed("using a default with /f", <<>>)

====
